---- MODULE Spec2Model ----
(***************************************************************************)
(* Model of convert_to_pdf.py: the command line front end (main), the      *)
(* backend selector (html_to_pdf) and the four backend adapters            *)
(* (convert_with_selenium, convert_with_playwright,                        *)
(* convert_with_weasyprint, convert_with_pdfkit).                          *)
(*                                                                         *)
(* Path strings are sequences of one-character strings, so that            *)
(* Path(html_file).with_suffix('.pdf') is computed the way pathlib         *)
(* computes it.  Every call into an external engine is a step that either  *)
(* completes or raises; what a raising call leaves behind (a partly        *)
(* written file, a browser that did not shut down) is a nondeterministic   *)
(* choice.  print() is taken not to raise.                                 *)
(***************************************************************************)
EXTENDS Integers, Sequences, FiniteSets, TLC

(* ------------------------------ bounds -------------------------------- *)

\* longest generated path string (besides the named example paths)
MaxLen == 1

\* largest number of keys in one caller-supplied option dictionary
MaxKeys == 1

(* --------------------------- path strings ----------------------------- *)

Chars == {"a", ".", "/"}

RECURSIVE StrUpTo(_)
StrUpTo(n) ==
    IF n = 0 THEN {<<>>}
    ELSE LET S == StrUpTo(n - 1)
         IN  S \cup {Append(s, c) : s \in {t \in S : Len(t) = n - 1}, c \in Chars}

poster_html == <<"p","o","s","t","e","r",".","h","t","m","l">>
poster_pdf == <<"p","o","s","t","e","r",".","p","d","f">>
report_htm == <<"r","e","p","o","r","t",".","h","t","m">>
report_pdf == <<"r","e","p","o","r","t",".","p","d","f">>
dot_slash_a_b == <<".","/","a",".","b">>
a_a_a == <<"a",".","a",".","a">>
out_pdf == <<"o",".","p","d","f">>
pdf_suffix == <<".","p","d","f">>

InputPaths == StrUpTo(MaxLen) \cup {poster_html, report_htm, dot_slash_a_b, a_a_a}

\* -o values: absent (None) or a path
OutputArgs == {<<>>, <<out_pdf>>}

\* index of the last occurrence of c in s, 0 when there is none (str.rfind + 1)
RECURSIVE rfind(_, _)
rfind(s, c) ==
    IF s = <<>> THEN 0
    ELSE IF s[Len(s)] = c THEN Len(s)
    ELSE rfind(SubSeq(s, 1, Len(s) - 1), c)

\* the components of s between "/" separators, empty ones included
RECURSIVE Split(_)
Split(s) ==
    LET i == rfind(s, "/")
    IN  IF i = 0 THEN <<s>>
        ELSE Append(Split(SubSeq(s, 1, i - 1)), SubSeq(s, i + 1, Len(s)))

RECURSIVE LeadingSlashes(_)
LeadingSlashes(s) ==
    IF s # <<>> /\ s[1] = "/" THEN 1 + LeadingSlashes(Tail(s)) ELSE 0

\* pathlib keeps exactly two leading slashes and folds any other number to one
Root(s) ==
    LET n == LeadingSlashes(s)
    IN  IF n = 0 THEN <<>> ELSE IF n = 2 THEN <<"/", "/">> ELSE <<"/">>

\* pathlib drops empty components and "." components
Parts(s) == SelectSeq(Split(s), LAMBDA c : c # <<>> /\ c # <<".">>)

RECURSIVE Join(_)
Join(parts) ==
    IF parts = <<>> THEN <<>>
    ELSE IF Len(parts) = 1 THEN parts[1]
    ELSE Join(SubSeq(parts, 1, Len(parts) - 1)) \o <<"/">> \o parts[Len(parts)]

\* str(PurePosixPath(root, *parts))
StrPath(root, parts) ==
    IF root = <<>> /\ parts = <<>> THEN <<".">> ELSE root \o Join(parts)

\* Path(s).name
name(s) == LET p == Parts(s) IN IF p = <<>> THEN <<>> ELSE p[Len(p)]

\* PurePath.suffix of a final component n
suffix(n) ==
    LET i == rfind(n, ".")
    IN  IF 1 < i /\ i < Len(n) THEN SubSeq(n, i, Len(n)) ELSE <<>>

\* a with_suffix that appends the new suffix without removing the old one
with_suffixAppend(s, sfx) ==
    LET n == name(s)
        p == Parts(s)
    IN  IF n = <<>> THEN [raised |-> TRUE, path |-> <<>>]
        ELSE [raised |-> FALSE,
              path |-> StrPath(Root(s), SubSeq(p, 1, Len(p) - 1) \o <<n \o sfx>>)]

\* Path(s).with_suffix(sfx): raised (ValueError) when the name is empty
with_suffix(s, sfx) ==
    LET n == name(s)
        p == Parts(s)
        old == suffix(n)
        newname == SubSeq(n, 1, Len(n) - Len(old)) \o sfx
    IN  IF n = <<>> THEN [raised |-> TRUE, path |-> <<>>]
        ELSE [raised |-> FALSE,
              path |-> StrPath(Root(s), SubSeq(p, 1, Len(p) - 1) \o <<newname>>)]

(* ------------------------- option dictionaries ------------------------ *)

Adapters == {"selenium", "playwright", "weasyprint", "pdfkit"}

EmptyDict == [k \in {} |-> "custom"]

\* two representative keys of each adapter's fixed print configuration
SeleniumDefaults == [landscape |-> "False", scale |-> "1.0"]
PlaywrightDefaults == [format |-> "A4", scale |-> "1.0"]
WeasyprintDefaults == [jpeg_quality |-> "95", pdf_version |-> "1.7"]
PdfkitDefaults == [dpi |-> "300", zoom |-> "1.0"]

Defaults(a) ==
    CASE a = "selenium" -> SeleniumDefaults
      [] a = "playwright" -> PlaywrightDefaults
      [] a = "weasyprint" -> WeasyprintDefaults
      [] a = "pdfkit" -> PdfkitDefaults

\* the keyword under which a caller passes an adapter's overrides
OptionsKey(a) ==
    CASE a = "selenium" -> "selenium_options"
      [] a = "playwright" -> "playwright_options"
      [] a = "weasyprint" -> "weasyprint_options"
      [] a = "pdfkit" -> "pdfkit_options"

Dicts(keys) ==
    UNION {[S -> {"custom"}] :
             S \in {T \in SUBSET keys : Cardinality(T) >= 1 /\ Cardinality(T) <= MaxKeys}}

\* **kwargs of an html_to_pdf call: empty, or one adapter's override dictionary
KwargsSet ==
    {EmptyDict} \cup
    UNION {{(OptionsKey(a) :> d) : d \in Dicts(DOMAIN Defaults(a))} : a \in Adapters}

\* kwargs.get(key, {})
Get(kw, key) == IF key \in DOMAIN kw THEN kw[key] ELSE EmptyDict

\* dict.update: the updating dictionary wins
update(d, o) == [k \in DOMAIN d \cup DOMAIN o |-> IF k \in DOMAIN o THEN o[k] ELSE d[k]]

\* what each adapter hands to its engine
print_options(kw) == SeleniumDefaults
write_pdf_options(kw) == WeasyprintDefaults
pdfkit_options(kw) == update(PdfkitDefaults, Get(kw, "pdfkit_options"))
pdf_options(kw) == update(PlaywrightDefaults, Get(kw, "playwright_options"))

(* ------------------------------- state -------------------------------- *)

VARIABLES
    entry,        \* "cli": run through main; "api": html_to_pdf called directly
    positional,   \* cli: the positional argument is present
    html_file,    \* the input path string
    output,       \* <<>> for None, <<p>> for a caller-supplied path p
    method,       \* the method string
    kwargs,       \* the option mapping
    inputKind,    \* what html_file names on disk: "missing", "file" or "dir"
    pc,           \* position of the single thread of control
    output_file,  \* html_to_pdf's local after line 291: <<>> until resolved
    idx,          \* 1-based position of the auto loop in methods
    cur,          \* the adapter attempt in progress
    ret,          \* value the adapter attempt returns
    exc,          \* exception in flight inside the adapter
    calls,        \* the completed adapter attempts, in order
    driver,       \* selenium driver session: "none", "open", "closed"
    pw,           \* playwright driver process: "none", "running", "stopped"
    browser,      \* playwright browser: "none", "open", "closed"
    outFile,      \* the output file: "untouched", "partial", "complete"
    result,       \* html_to_pdf's outcome: "none", "true", "false", "raised"
    exitCode      \* process exit status, -1 while running

inputs == <<entry, positional, html_file, output, method, kwargs, inputKind>>
selector == <<output_file, idx, calls, result, exitCode>>
resources == <<driver, pw, browser>>
vars == <<inputs, selector, resources, pc, cur, ret, exc, outFile>>

choices == {"auto", "selenium", "weasyprint", "pdfkit", "playwright"}
MethodArgs == choices \cup {"bogus"}

\* a path that can only name a directory: it ends in "/" or in a "." or ".." component
DirOnly(s) ==
    LET c == Split(s) IN s # <<>> /\ c[Len(c)] \in {<<>>, <<".">>, <<".", ".">>}

KindsOf(s) ==
    IF s = <<>> THEN {"missing"}
    ELSE IF DirOnly(s) THEN {"missing", "dir"}
    ELSE {"missing", "file", "dir"}

NoCall ==
    [name |-> "none", html |-> <<>>, out |-> <<>>, engine |-> FALSE, opts |-> EmptyDict,
     success |-> FALSE, produced |-> FALSE, acquired |-> FALSE,
     relInvoked |-> FALSE, relRaised |-> FALSE]

Init ==
    /\ entry \in {"cli", "api"}
    /\ positional \in BOOLEAN
    /\ entry = "api" => positional
    /\ html_file \in InputPaths
    /\ ~positional => html_file = <<>>
    /\ output \in OutputArgs
    /\ method \in MethodArgs
    /\ kwargs \in KwargsSet
    /\ entry = "cli" => kwargs = EmptyDict
    /\ inputKind \in KindsOf(html_file)
    /\ pc = IF entry = "cli" THEN "parse" ELSE "check"
    /\ output_file = <<>>
    /\ idx = 0
    /\ cur = NoCall
    /\ ret = FALSE
    /\ exc = "none"
    /\ calls = <<>>
    /\ driver = "none"
    /\ pw = "none"
    /\ browser = "none"
    /\ outFile = "untouched"
    /\ result = "none"
    /\ exitCode = -1

(* ------------------------------- main --------------------------------- *)

\* parser.parse_args(): a usage error ends the process with status 2
ArgparseAccepts(pos, m) == pos /\ m \in choices

ParseArgs ==
    /\ pc = "parse"
    /\ IF ArgparseAccepts(positional, method)
       THEN /\ pc' = "check"
            /\ exitCode' = exitCode
       ELSE /\ pc' = "exited"
            /\ exitCode' = 2
    /\ UNCHANGED <<inputs, output_file, idx, calls, result, resources, cur, ret, exc, outFile>>

\* the two statuses exchanged
ExitStatusInverted(success) == IF success THEN 1 ELSE 0

\* sys.exit(0 if success else 1)
ExitStatus(success) == IF success THEN 0 ELSE 1

MainExit ==
    /\ pc = "returned"
    /\ entry = "cli"
    /\ result \in {"true", "false"}
    /\ exitCode' = ExitStatus(result = "true")
    /\ pc' = "exited"
    /\ UNCHANGED <<inputs, output_file, idx, calls, result, resources, cur, ret, exc, outFile>>

\* main has no handler around html_to_pdf: an exception ends the process with status 1
UncaughtExit ==
    /\ pc = "returned"
    /\ entry = "cli"
    /\ result = "raised"
    /\ exitCode' = 1
    /\ pc' = "exited"
    /\ UNCHANGED <<inputs, output_file, idx, calls, result, resources, cur, ret, exc, outFile>>

(* ---------------------------- html_to_pdf ----------------------------- *)

\* an existence check that always passes
existsAlways(kind) == TRUE

\* os.path.exists
exists(kind) == kind # "missing"

CheckInput ==
    /\ pc = "check"
    /\ IF ~exists(inputKind)
       THEN /\ result' = "false"
            /\ pc' = "returned"
       ELSE /\ result' = result
            /\ pc' = "resolve"
    /\ UNCHANGED <<inputs, output_file, idx, calls, exitCode, resources, cur, ret, exc, outFile>>

ResolveOutput ==
    /\ pc = "resolve"
    /\ IF output = <<>>
       THEN LET r == with_suffix(html_file, pdf_suffix)
            IN  IF r.raised
                THEN /\ result' = "raised"
                     /\ pc' = "returned"
                     /\ output_file' = output_file
                ELSE /\ output_file' = <<r.path>>
                     /\ pc' = "dispatch"
                     /\ result' = result
       ELSE /\ output_file' = output
            /\ pc' = "dispatch"
            /\ result' = result
    /\ UNCHANGED <<inputs, idx, calls, exitCode, resources, cur, ret, exc, outFile>>

\* the preference order with its first two entries exchanged
methodsSwapped == <<"playwright", "selenium", "weasyprint", "pdfkit">>

\* the auto mode preference order
methods == <<"selenium", "playwright", "weasyprint", "pdfkit">>

\* an elif chain whose weasyprint and pdfkit branches call each other's converter
ConverterForSwapped(m) ==
    CASE m = "selenium" -> "selenium"
      [] m = "weasyprint" -> "pdfkit"
      [] m = "pdfkit" -> "weasyprint"
      [] m = "playwright" -> "playwright"
      [] OTHER -> "none"

\* the elif chain: the converter a method string selects, "none" for the else branch
ConverterFor(m) ==
    CASE m = "selenium" -> "selenium"
      [] m = "weasyprint" -> "weasyprint"
      [] m = "pdfkit" -> "pdfkit"
      [] m = "playwright" -> "playwright"
      [] OTHER -> "none"

\* first position inside each converter
EntryPc(a) ==
    CASE a = "selenium" -> "sel_import"
      [] a = "playwright" -> "pw_import"
      [] a = "weasyprint" -> "wp_import"
      [] a = "pdfkit" -> "pk_import"

\* converter(html_file, output_file, **kwargs)
NewCall(a) == [NoCall EXCEPT !.name = a, !.html = html_file, !.out = output_file[1]]

Dispatch ==
    /\ pc = "dispatch"
    /\ IF method = "auto"
       THEN /\ idx' = 1
            /\ pc' = "loop"
            /\ UNCHANGED <<cur, result>>
       ELSE IF ConverterFor(method) # "none"
       THEN /\ cur' = NewCall(ConverterFor(method))
            /\ pc' = EntryPc(ConverterFor(method))
            /\ UNCHANGED <<idx, result>>
       ELSE /\ result' = "false"
            /\ pc' = "returned"
            /\ UNCHANGED <<idx, cur>>
    /\ UNCHANGED <<inputs, output_file, calls, exitCode, resources, ret, exc, outFile>>

LoopNext ==
    /\ pc = "loop"
    /\ IF idx <= Len(methods)
       THEN /\ cur' = NewCall(methods[idx])
            /\ pc' = EntryPc(methods[idx])
            /\ result' = result
       ELSE /\ result' = "false"
            /\ pc' = "returned"
            /\ cur' = cur
    /\ UNCHANGED <<inputs, output_file, idx, calls, exitCode, resources, ret, exc, outFile>>

\* auto mode: the loop goes on to the next converter exactly when this one returned False
TryNext(r) == ~r

ConverterReturn ==
    /\ pc = "conv_ret"
    /\ calls' = Append(calls, [call |-> cur, result |-> ret])
    /\ cur' = NoCall
    /\ IF method = "auto" /\ TryNext(ret)
       THEN /\ idx' = idx + 1
            /\ pc' = "loop"
            /\ result' = result
       ELSE /\ result' = IF ret THEN "true" ELSE "false"
            /\ pc' = "returned"
            /\ idx' = idx
    /\ UNCHANGED <<inputs, output_file, exitCode, resources, ret, exc, outFile>>

(* ----------------------- convert_with_selenium ------------------------ *)

\* what open(output_file, 'wb') / an engine leaves when the write raises
AfterFailedWrite(f) == {f, "partial"}

SeleniumImport ==
    /\ pc = "sel_import"
    /\ \E ok \in BOOLEAN :
         IF ok THEN pc' = "sel_start" /\ exc' = exc
         ELSE pc' = "sel_except" /\ exc' = "ImportError"
    /\ UNCHANGED <<inputs, selector, resources, cur, ret, outFile>>

\* Options(...) and webdriver.Chrome(options=chrome_options)
SeleniumStart ==
    /\ pc = "sel_start"
    /\ \E ok \in BOOLEAN :
         IF ok
         THEN /\ driver' = "open"
              /\ cur' = [cur EXCEPT !.acquired = TRUE]
              /\ pc' = "sel_get"
              /\ exc' = exc
         ELSE /\ pc' = "sel_except"
              /\ exc' = "Exception"
              /\ UNCHANGED <<driver, cur>>
    /\ UNCHANGED <<inputs, selector, pw, browser, ret, outFile>>

\* the page load without the try ... finally around it
SeleniumGetNoFinally ==
    /\ pc = "sel_get"
    /\ \E ok \in BOOLEAN :
         IF ok THEN pc' = "sel_print" /\ exc' = exc
         ELSE pc' = "sel_except" /\ exc' = "Exception"
    /\ UNCHANGED <<inputs, selector, resources, cur, ret, outFile>>

\* driver.get(html_path); time.sleep(3), inside try ... finally
SeleniumGet ==
    /\ pc = "sel_get"
    /\ \E ok \in BOOLEAN :
         IF ok THEN pc' = "sel_print" /\ exc' = exc
         ELSE pc' = "sel_finally" /\ exc' = "Exception"
    /\ UNCHANGED <<inputs, selector, resources, cur, ret, outFile>>

\* driver.execute_cdp_cmd('Page.printToPDF', print_options)
SeleniumPrint ==
    /\ pc = "sel_print"
    /\ cur' = [cur EXCEPT !.engine = TRUE, !.opts = print_options(kwargs)]
    /\ \E ok \in BOOLEAN :
         IF ok THEN pc' = "sel_write" /\ exc' = exc
         ELSE pc' = "sel_finally" /\ exc' = "Exception"
    /\ UNCHANGED <<inputs, selector, resources, ret, outFile>>

\* b64decode, open/write, the success line and `return True` (pending the finally)
SeleniumWrite ==
    /\ pc = "sel_write"
    /\ \E ok \in BOOLEAN :
         IF ok
         THEN /\ outFile' = "complete"
              /\ cur' = [cur EXCEPT !.produced = TRUE, !.success = TRUE]
              /\ ret' = TRUE
              /\ exc' = exc
         ELSE /\ outFile' \in AfterFailedWrite(outFile)
              /\ exc' = "Exception"
              /\ UNCHANGED <<cur, ret>>
    /\ pc' = "sel_finally"
    /\ UNCHANGED <<inputs, selector, resources>>

\* finally: driver.quit(); an exception raised here replaces the pending return
SeleniumFinally ==
    /\ pc = "sel_finally"
    /\ \E ok \in BOOLEAN :
         IF ok
         THEN /\ driver' = "closed"
              /\ cur' = [cur EXCEPT !.relInvoked = TRUE]
              /\ pc' = IF exc = "none" THEN "conv_ret" ELSE "sel_except"
              /\ exc' = exc
         ELSE /\ driver' \in {"open", "closed"}
              /\ cur' = [cur EXCEPT !.relInvoked = TRUE, !.relRaised = TRUE]
              /\ pc' = "sel_except"
              /\ exc' = "Exception"
    /\ UNCHANGED <<inputs, selector, pw, browser, ret, outFile>>

\* except ImportError / except Exception: print the diagnostic, return False
SeleniumExcept ==
    /\ pc = "sel_except"
    /\ exc \in {"ImportError", "Exception"}
    /\ ret' = FALSE
    /\ exc' = "none"
    /\ pc' = "conv_ret"
    /\ UNCHANGED <<inputs, selector, resources, cur, outFile>>

(* ---------------------- convert_with_playwright ----------------------- *)

PlaywrightImport ==
    /\ pc = "pw_import"
    /\ \E ok \in BOOLEAN :
         IF ok THEN pc' = "pw_enter" /\ exc' = exc
         ELSE pc' = "pw_except" /\ exc' = "ImportError"
    /\ UNCHANGED <<inputs, selector, resources, cur, ret, outFile>>

\* with sync_playwright() as p: entering starts the playwright driver process
PlaywrightEnter ==
    /\ pc = "pw_enter"
    /\ \E ok \in BOOLEAN :
         IF ok
         THEN /\ pw' = "running"
              /\ cur' = [cur EXCEPT !.acquired = TRUE]
              /\ pc' = "pw_launch"
              /\ exc' = exc
         ELSE /\ pc' = "pw_except"
              /\ exc' = "Exception"
              /\ UNCHANGED <<pw, cur>>
    /\ UNCHANGED <<inputs, selector, driver, browser, ret, outFile>>

\* browser = p.chromium.launch()
PlaywrightLaunch ==
    /\ pc = "pw_launch"
    /\ \E ok \in BOOLEAN :
         IF ok
         THEN /\ browser' = "open"
              /\ pc' = "pw_goto"
              /\ exc' = exc
         ELSE /\ pc' = "pw_exit"
              /\ exc' = "Exception"
              /\ browser' = browser
    /\ UNCHANGED <<inputs, selector, driver, pw, cur, ret, outFile>>

\* browser.new_page(); page.goto(html_path); page.wait_for_timeout(2000)
PlaywrightGoto ==
    /\ pc = "pw_goto"
    /\ \E ok \in BOOLEAN :
         IF ok THEN pc' = "pw_pdf" /\ exc' = exc
         ELSE pc' = "pw_exit" /\ exc' = "Exception"
    /\ UNCHANGED <<inputs, selector, resources, cur, ret, outFile>>

\* pdf_options.update(kwargs.get('playwright_options', {})); page.pdf(**pdf_options)
PlaywrightPdf ==
    /\ pc = "pw_pdf"
    /\ \E ok \in BOOLEAN :
         IF ok
         THEN /\ outFile' = "complete"
              /\ cur' = [cur EXCEPT !.engine = TRUE, !.opts = pdf_options(kwargs),
                                    !.produced = TRUE]
              /\ pc' = "pw_close"
              /\ exc' = exc
         ELSE /\ outFile' \in AfterFailedWrite(outFile)
              /\ cur' = [cur EXCEPT !.engine = TRUE, !.opts = pdf_options(kwargs)]
              /\ pc' = "pw_exit"
              /\ exc' = "Exception"
    /\ UNCHANGED <<inputs, selector, resources, ret>>

\* browser.close(), reached only when page.pdf returned
PlaywrightClose ==
    /\ pc = "pw_close"
    /\ \E ok \in BOOLEAN :
         IF ok
         THEN /\ browser' = "closed"
              /\ cur' = [cur EXCEPT !.relInvoked = TRUE]
              /\ exc' = exc
         ELSE /\ browser' \in {"open", "closed"}
              /\ cur' = [cur EXCEPT !.relInvoked = TRUE, !.relRaised = TRUE]
              /\ exc' = "Exception"
    /\ pc' = "pw_exit"
    /\ UNCHANGED <<inputs, selector, driver, pw, ret, outFile>>

\* leaving the with block: stopping the playwright driver process ends the
\* browsers it launched
PlaywrightExit ==
    /\ pc = "pw_exit"
    /\ \E ok \in BOOLEAN :
         IF ok
         THEN /\ pw' = "stopped"
              /\ browser' = IF browser = "open" THEN "closed" ELSE browser
              /\ cur' = [cur EXCEPT !.relInvoked = TRUE]
              /\ pc' = IF exc = "none" THEN "pw_success" ELSE "pw_except"
              /\ exc' = exc
         ELSE /\ pw' \in {"running", "stopped"}
              /\ browser' \in IF browser = "open" THEN {"open", "closed"} ELSE {browser}
              /\ cur' = [cur EXCEPT !.relInvoked = TRUE, !.relRaised = TRUE]
              /\ pc' = "pw_except"
              /\ exc' = "Exception"
    /\ UNCHANGED <<inputs, selector, driver, ret, outFile>>

\* the success line and return True
PlaywrightSuccess ==
    /\ pc = "pw_success"
    /\ cur' = [cur EXCEPT !.success = TRUE]
    /\ ret' = TRUE
    /\ pc' = "conv_ret"
    /\ UNCHANGED <<inputs, selector, resources, exc, outFile>>

PlaywrightExcept ==
    /\ pc = "pw_except"
    /\ exc \in {"ImportError", "Exception"}
    /\ ret' = FALSE
    /\ exc' = "none"
    /\ pc' = "conv_ret"
    /\ UNCHANGED <<inputs, selector, resources, cur, outFile>>

(* ---------------------- convert_with_weasyprint ----------------------- *)

WeasyprintImport ==
    /\ pc = "wp_import"
    /\ \E ok \in BOOLEAN :
         IF ok THEN pc' = "wp_prepare" /\ exc' = exc
         ELSE pc' = "wp_except" /\ exc' = "ImportError"
    /\ UNCHANGED <<inputs, selector, resources, cur, ret, outFile>>

\* HTML(filename=html_file); CSS(string=...)
WeasyprintPrepare ==
    /\ pc = "wp_prepare"
    /\ \E ok \in BOOLEAN :
         IF ok THEN pc' = "wp_write" /\ exc' = exc
         ELSE pc' = "wp_except" /\ exc' = "Exception"
    /\ UNCHANGED <<inputs, selector, resources, cur, ret, outFile>>

\* html_doc.write_pdf(output_file, ...); the success line; return True
WeasyprintWrite ==
    /\ pc = "wp_write"
    /\ \E ok \in BOOLEAN :
         IF ok
         THEN /\ outFile' = "complete"
              /\ cur' = [cur EXCEPT !.engine = TRUE, !.opts = write_pdf_options(kwargs),
                                    !.produced = TRUE, !.success = TRUE]
              /\ ret' = TRUE
              /\ pc' = "conv_ret"
              /\ exc' = exc
         ELSE /\ outFile' \in AfterFailedWrite(outFile)
              /\ cur' = [cur EXCEPT !.engine = TRUE, !.opts = write_pdf_options(kwargs)]
              /\ ret' = ret
              /\ pc' = "wp_except"
              /\ exc' = "Exception"
    /\ UNCHANGED <<inputs, selector, resources>>

WeasyprintExcept ==
    /\ pc = "wp_except"
    /\ exc \in {"ImportError", "Exception"}
    /\ ret' = FALSE
    /\ exc' = "none"
    /\ pc' = "conv_ret"
    /\ UNCHANGED <<inputs, selector, resources, cur, outFile>>

(* ------------------------ convert_with_pdfkit ------------------------- *)

PdfkitImport ==
    /\ pc = "pk_import"
    /\ \E ok \in BOOLEAN :
         IF ok THEN pc' = "pk_from_file" /\ exc' = exc
         ELSE pc' = "pk_except" /\ exc' = "ImportError"
    /\ UNCHANGED <<inputs, selector, resources, cur, ret, outFile>>

\* options.update(kwargs.get('pdfkit_options', {})); pdfkit.from_file(...);
\* the success line; return True
PdfkitFromFile ==
    /\ pc = "pk_from_file"
    /\ \E ok \in BOOLEAN :
         IF ok
         THEN /\ outFile' = "complete"
              /\ cur' = [cur EXCEPT !.engine = TRUE, !.opts = pdfkit_options(kwargs),
                                    !.produced = TRUE, !.success = TRUE]
              /\ ret' = TRUE
              /\ pc' = "conv_ret"
              /\ exc' = exc
         ELSE /\ outFile' \in AfterFailedWrite(outFile)
              /\ cur' = [cur EXCEPT !.engine = TRUE, !.opts = pdfkit_options(kwargs)]
              /\ ret' = ret
              /\ pc' = "pk_except"
              /\ exc' = "Exception"
    /\ UNCHANGED <<inputs, selector, resources>>

PdfkitExcept ==
    /\ pc = "pk_except"
    /\ exc \in {"ImportError", "Exception"}
    /\ ret' = FALSE
    /\ exc' = "none"
    /\ pc' = "conv_ret"
    /\ UNCHANGED <<inputs, selector, resources, cur, outFile>>

(* --------------------------- specification ---------------------------- *)

Next ==
    \/ ParseArgs \/ MainExit \/ UncaughtExit
    \/ CheckInput \/ ResolveOutput \/ Dispatch \/ LoopNext \/ ConverterReturn
    \/ SeleniumImport \/ SeleniumStart \/ SeleniumGet \/ SeleniumPrint
    \/ SeleniumWrite \/ SeleniumFinally \/ SeleniumExcept
    \/ PlaywrightImport \/ PlaywrightEnter \/ PlaywrightLaunch \/ PlaywrightGoto
    \/ PlaywrightPdf \/ PlaywrightClose \/ PlaywrightExit \/ PlaywrightSuccess
    \/ PlaywrightExcept
    \/ WeasyprintImport \/ WeasyprintPrepare \/ WeasyprintWrite \/ WeasyprintExcept
    \/ PdfkitImport \/ PdfkitFromFile \/ PdfkitExcept

Spec == Init /\ [][Next]_vars

(* ------------------------------ claims -------------------------------- *)

\* the attempts made so far: the completed ones and the one in progress
Attempts ==
    {calls[i].call : i \in 1..Len(calls)} \cup (IF cur.name # "none" THEN {cur} ELSE {})

\* html_to_pdf has finished and main, if any, has not yet turned the outcome into a status
Finished == pc \in {"returned", "exited"} /\ result # "none"

PriorityOrder == <<"selenium", "playwright", "weasyprint", "pdfkit">>

\* C1: in auto mode with an existing input file the adapters are attempted in the
\* order selenium, playwright, weasyprint, pdfkit, each at most once; an attempt is
\* made only after every earlier one failed; the call ends in success exactly at the
\* first adapter that succeeds and in failure only after all four failed.
AutoFirstSuccessWins ==
    (method = "auto" /\ inputKind = "file") =>
        /\ Len(calls) <= 4
        /\ \A i \in 1..Len(calls) : calls[i].call.name = PriorityOrder[i]
        /\ \A i \in 1..(Len(calls) - 1) : ~calls[i].result
        /\ cur.name # "none" =>
              /\ Len(calls) < 4
              /\ cur.name = PriorityOrder[Len(calls) + 1]
              /\ \A i \in 1..Len(calls) : ~calls[i].result
        /\ Finished =>
              /\ Len(calls) >= 1
              /\ result = IF calls[Len(calls)].result THEN "true" ELSE "false"
              /\ result = "false" => Len(calls) = 4

\* C1 witness: selenium and playwright failed, weasyprint succeeded, pdfkit never ran
AutoThirdSucceeds ==
    /\ method = "auto" /\ inputKind = "file" /\ pc = "returned"
    /\ Len(calls) = 3 /\ ~calls[1].result /\ ~calls[2].result /\ calls[3].result
    /\ result = "true"

\* C2: with an existing input file and a named method, only the adapter of that
\* name is attempted, once, and its result is the call's result, failed or not.
NamedMethodOnlyThatAdapter ==
    (method \in Adapters /\ inputKind = "file") =>
        /\ Len(calls) <= 1
        /\ \A c \in Attempts : c.name = method
        /\ cur.name # "none" => calls = <<>>
        /\ Finished =>
              /\ Len(calls) = 1
              /\ result = IF calls[1].result THEN "true" ELSE "false"

\* C2 witness: pdfkit was named, failed, and the call returned failure without fallback
NamedPdfkitFailed ==
    /\ method = "pdfkit" /\ inputKind = "file" /\ pc = "returned"
    /\ Len(calls) = 1 /\ calls[1].call.name = "pdfkit" /\ ~calls[1].result
    /\ result = "false"

\* C3: for a method that is neither auto nor an adapter name, html_to_pdf returns
\* failure and no adapter is invoked nor any adapter side effect produced.
UnknownMethodReturnsFailure ==
    (method \notin choices /\ pc = "returned") =>
        /\ result = "false"
        /\ Attempts = {}
        /\ outFile = "untouched"
        /\ driver = "none" /\ pw = "none" /\ browser = "none"

\* C4: when the input path names nothing, html_to_pdf returns failure, no adapter
\* is attempted and no output is written; and no adapter is ever attempted unless
\* the input exists.
MissingInputFailsFirst ==
    /\ Attempts # {} => inputKind # "missing"
    /\ inputKind = "missing" =>
          /\ outFile = "untouched"
          /\ driver = "none" /\ pw = "none" /\ browser = "none"
          /\ output_file = <<>>
          /\ pc = "returned" => result = "false"

\* C4 witness: a named adapter was requested for a missing input and the call failed
MissingInputRejected ==
    /\ inputKind = "missing" /\ method = "selenium" /\ html_file = poster_html
    /\ pc = "returned" /\ result = "false" /\ calls = <<>>

\* C5 (as stated): the exit status is 0 exactly when the conversion succeeded and 1
\* in every other case, whatever the command line.
ExitCodeZeroOrOne ==
    pc = "exited" =>
        /\ exitCode \in {0, 1}
        /\ exitCode = 0 <=> result = "true"

\* C5 (amended): a command line the parser accepts exits with 0 exactly when
\* html_to_pdf returned True and with 1 otherwise; a command line the parser
\* rejects exits with 2 before html_to_pdf is called.
ExitCodeMatchesResult ==
    pc = "exited" =>
        IF positional /\ method \in {"auto", "selenium", "weasyprint", "pdfkit", "playwright"}
        THEN /\ result # "none"
             /\ exitCode = IF result = "true" THEN 0 ELSE 1
        ELSE /\ exitCode = 2
             /\ result = "none"
             /\ Attempts = {}

\* C5 witness: a successful conversion ended the process with status 0
ExitedWithSuccess ==
    pc = "exited" /\ result = "true" /\ exitCode = 0 /\ Len(calls) >= 1

EndsWith(s, t) == Len(s) >= Len(t) /\ SubSeq(s, Len(s) - Len(t) + 1, Len(s)) = t

\* out is inp, normalised, with the extension of its last component replaced by
\* .pdf: an extension starts at the last dot of that component, provided the dot
\* is neither its first nor its last character
ExtensionReplaced(inp, out) ==
    LET norm == StrPath(Root(inp), Parts(inp))
        base == SubSeq(out, 1, Len(out) - Len(pdf_suffix))
        rest == SubSeq(norm, Len(base) + 1, Len(norm))
        HasExt == \E i \in 2..(Len(norm) - 1) :
                     /\ norm[i] = "."
                     /\ norm[i - 1] # "/"
                     /\ \A j \in (i + 1)..Len(norm) : norm[j] \notin {".", "/"}
    IN  /\ EndsWith(out, pdf_suffix)
        /\ base # <<>>
        /\ Len(base) <= Len(norm)
        /\ base = SubSeq(norm, 1, Len(base))
        /\ IF HasExt
           THEN /\ Len(rest) >= 2
                /\ rest[1] = "."
                /\ \A j \in 2..Len(rest) : rest[j] \notin {".", "/"}
           ELSE rest = <<>>

\* C6: every adapter attempted in a call receives the same output path, resolved
\* before the first attempt: the caller's path when given, else the input path with
\* its extension replaced by .pdf (poster.html gives poster.pdf, report.htm gives
\* report.pdf).
OutputPathSharedAndDefaulted ==
    \A c \in Attempts :
        /\ c.html = html_file
        /\ output_file = <<c.out>>
        /\ output # <<>> => c.out = output[1]
        /\ output = <<>> =>
              /\ ExtensionReplaced(html_file, c.out)
              /\ html_file = poster_html => c.out = poster_pdf
              /\ html_file = report_htm => c.out = report_pdf

\* C6 witness: auto mode, no -o, poster.html: the second attempt got poster.pdf too
SecondAttemptGotPosterPdf ==
    /\ method = "auto" /\ output = <<>> /\ html_file = poster_html
    /\ Len(calls) = 1 /\ calls[1].call.out = poster_pdf
    /\ cur.name = "playwright" /\ cur.out = poster_pdf

\* C7: no failure leaves an adapter or html_to_pdf as an exception: every adapter
\* hands back a boolean with no exception in flight, and html_to_pdf always
\* returns a boolean.
NoFailureEscapes ==
    /\ pc = "conv_ret" => exc = "none"
    /\ pc \in {"returned", "exited"} => result # "raised"

\* an attempt that has returned to html_to_pdf
Returned(a) ==
    \/ \E i \in 1..Len(calls) : calls[i].call.name = a
    \/ cur.name = a /\ pc = "conv_ret"

ReturnedAttempts ==
    {calls[i].call : i \in 1..Len(calls)} \cup (IF pc = "conv_ret" THEN {cur} ELSE {})

OverridesWin ==
    \A c \in Attempts :
        c.engine =>
            LET sup == Get(kwargs, OptionsKey(c.name))
            IN  \A k \in DOMAIN Defaults(c.name) :
                    c.opts[k] = IF k \in DOMAIN sup THEN sup[k] ELSE Defaults(c.name)[k]

\* C10: an attempt that returned False neither produced the output file nor
\* emitted its success line, so no adapter is attempted after the output exists.
AttemptProducesOrFails ==
    /\ \A i \in 1..Len(calls) :
          ~calls[i].result => (~calls[i].call.produced /\ ~calls[i].call.success)
    /\ (pc = "conv_ret" /\ ~ret) => (~cur.produced /\ ~cur.success)
    /\ \A i \in 1..Len(calls) :
          calls[i].call.produced => (i = Len(calls) /\ cur.name = "none")
====
